---------------------------- MODULE Spec2Model ----------------------------
(***************************************************************************)
(* Model of the D-Sub drawing generator (scripts/generate_svgs.py) and of  *)
(* the catalog helpers it relies on (scripts/report_catalog.py).           *)
(*                                                                         *)
(* Lengths are exact integers in units of 0.01 mm, on inputs chosen so     *)
(* that every halving the code performs (h / 2.0, (a + b) / 2.0) is exact: *)
(* horizontal pitches are multiples of 4, vertical pitches and explicit    *)
(* offsets are multiples of 2.  Floating-point rounding is modelled where  *)
(* it changes a result by more than the last digit: at the math.floor of   *)
(* row_offsets_for_counts and at the ang == 0 test of                      *)
(* rounded_polygon_path.                                                   *)
(***************************************************************************)
EXTENDS Integers, Sequences, FiniteSets, TLC

VARIABLES
    dist_in,     \* arguments of the distribute_pins call under study
    dist_out,    \* its outcome, or NotCalled
    pin_in,      \* arguments of generate_pin_positions (all but gender, view)
    pin_out,     \* outcomes of the calls made so far, in generate_all's loop order
    catalog,     \* the catalog handed to generate_all
    pc,          \* position of the batch run
    all_errors,  \* load_specs: validation messages collected so far
    checked,     \* load_specs: number of connectors validate_connector has seen
    spec_i,      \* generate_all: index of the connector being rendered
    combo_i,     \* generate_all: index of the (gender, view) pair being rendered
    writes,      \* file names passed to write_text, in order
    written,     \* generate_all: the counter it returns
    stem_in,     \* the file tag under study
    stem_out,    \* sanitize_stem(stem_in), or NotCalled
    stem_again,  \* sanitize_stem applied to stem_out, or NotCalled
    names,       \* file names generate_all builds for stem_in, in loop order
    off_in,      \* arguments of the layout under study: rows, counts, pitches
    off_out,     \* the row offsets it is laid out with, or NotCalled
    off_pins,    \* its pins as placed, before the centroid shift, or NotCalled
    draw_in,     \* arguments of generate_svg: spec, gender, view, include_caption
    draw_out,    \* the drawing generate_svg returns, or NotCalled
    path_pts,    \* the points handed to rounded_polygon_path
    path_i,      \* its loop index
    path_cmds,   \* its cmds list
    path_pc,     \* its position: "check", "loop", "returned", "raised"
    dim_calls,   \* the dimension-figure calls generate_svg has still to make, in order
    dim_layers,  \* the contents of its two dimension layers
    dim_last,    \* the call made last and the length its layer had before, or NotCalled
    norm_in,     \* the insert definition handed to _normalize_insert
    norm_out,    \* what _normalize_insert returns for it, or NotCalled
    norm_drawn   \* the row counts generate_pin_positions then lays out, or NotCalled

vars == <<dist_in, dist_out, pin_in, pin_out, catalog, pc, all_errors,
          checked, spec_i, combo_i, writes, written, stem_in, stem_out,
          stem_again, names, off_in, off_out, off_pins, draw_in, draw_out,
          path_pts, path_i, path_cmds, path_pc,
          dim_calls, dim_layers, dim_last,
          norm_in, norm_out, norm_drawn>>

distVars == <<dist_in, dist_out>>
pinVars == <<pin_in, pin_out>>
batchVars == <<catalog, pc, all_errors, checked, spec_i, combo_i, writes, written>>
stemVars == <<stem_in, stem_out, stem_again, names>>
offVars == <<off_in, off_out, off_pins>>
drawVars == <<draw_in, draw_out>>
pathVars == <<path_pts, path_i, path_cmds, path_pc>>
dimVars == <<dim_calls, dim_layers, dim_last>>
normVars == <<norm_in, norm_out, norm_drawn>>
restVars == <<stemVars, offVars, drawVars, pathVars, dimVars, normVars>>

-----------------------------------------------------------------------------
(* Bounds of the model *)

\* largest pin_count handed to distribute_pins on its own
MaxDistPins == 50
\* largest pin_count handed to generate_pin_positions when row_counts is derived
MaxPins == 9
\* largest entry of a supplied row_counts
MaxCount == 3
\* how far below MinRows and above MaxRows the rows argument ranges
RowSlack == 1
\* largest number of connectors in a catalog
MaxConnectors == 2

(* Program constants *)

\* smallest and largest row count distribute_pins supports
MinRows == 2
MaxRows == 4

SupportedRows == {2, 3, 4}
RowInputs == (MinRows - RowSlack) .. (MaxRows + RowSlack)

-----------------------------------------------------------------------------
(* Generic helpers standing for Python built-ins *)

RECURSIVE Sum(_)
Sum(s) == IF s = <<>> THEN 0 ELSE Head(s) + Sum(Tail(s))

SetMax(S) == CHOOSE m \in S : \A k \in S : k <= m
SetMin(S) == CHOOSE m \in S : \A k \in S : m <= k

\* max(generator, default=0)
MaxOrZero(S) == IF S = {} THEN 0 ELSE SetMax(S)

\* x / 2.0, exact on the inputs of this model
Half(x) == x \div 2

RECURSIVE SeqsUpTo(_, _)
SeqsUpTo(S, n) ==
    IF n = 0 THEN {<<>>}
    ELSE LET shorter == SeqsUpTo(S, n - 1)
         IN shorter \cup {Append(s, e) : s \in {t \in shorter : Len(t) = n - 1}, e \in S}

\* an Optional[...] argument: absent (None) or present with a value
Absent(dflt) == [present |-> FALSE, val |-> dflt]
Present(v) == [present |-> TRUE, val |-> v]

\* outcome of a call: a returned value or a raised exception
Returned(v) == [ok |-> TRUE, val |-> v, err |-> ""]
Raised(e) == [ok |-> FALSE, val |-> <<>>, err |-> e]
NotCalled == [ok |-> FALSE, val |-> <<>>, err |-> "not called"]

-----------------------------------------------------------------------------
(* distribute_pins *)

\* for i in range(rem): counts[i] += 1
RECURSIVE AddOneToFirst(_, _, _)
AddOneToFirst(counts, i, rem) ==
    IF i >= rem THEN counts
    ELSE AddOneToFirst([counts EXCEPT ![i + 1] = @ + 1], i + 1, rem)

\* a slip in the rows == 3 branch: both extra pins go to the first row
distribute_pins_lopsided(pin_count, rows) ==
    IF rows = 2 THEN Returned(<<(pin_count + 1) \div 2, pin_count \div 2>>)
    ELSE IF rows = 3 THEN
        LET base == pin_count \div 3
            rem == pin_count % 3
        IN Returned(IF rem = 1 THEN <<base, base + 1, base>>
                    ELSE IF rem = 2 THEN <<base + 2, base, base>>
                    ELSE <<base, base, base>>)
    ELSE IF rows = 4 THEN
        LET base == pin_count \div 4
        IN Returned(AddOneToFirst(<<base, base, base, base>>, 0, pin_count % 4))
    ELSE Raised("rows must be 2, 3, or 4")

\* a slip in the rows == 3 branch: a single extra pin goes to the first row
distribute_pins_first(pin_count, rows) ==
    IF rows = 2 THEN Returned(<<(pin_count + 1) \div 2, pin_count \div 2>>)
    ELSE IF rows = 3 THEN
        LET base == pin_count \div 3
            rem == pin_count % 3
        IN Returned(IF rem = 1 THEN <<base + 1, base, base>>
                    ELSE IF rem = 2 THEN <<base + 1, base, base + 1>>
                    ELSE <<base, base, base>>)
    ELSE IF rows = 4 THEN
        LET base == pin_count \div 4
        IN Returned(AddOneToFirst(<<base, base, base, base>>, 0, pin_count % 4))
    ELSE Raised("rows must be 2, 3, or 4")

distribute_pins(pin_count, rows) ==
    IF rows = 2 THEN Returned(<<(pin_count + 1) \div 2, pin_count \div 2>>)
    ELSE IF rows = 3 THEN
        LET base == pin_count \div 3
            rem == pin_count % 3
            counts == <<base, base, base>>
        IN Returned(IF rem = 1 THEN [counts EXCEPT ![2] = @ + 1]
                    ELSE IF rem = 2 THEN [counts EXCEPT ![1] = @ + 1, ![3] = @ + 1]
                    ELSE counts)
    ELSE IF rows = 4 THEN
        LET base == pin_count \div 4
            rem == pin_count % 4
        IN Returned(AddOneToFirst(<<base, base, base, base>>, 0, rem))
    ELSE Raised("rows must be 2, 3, or 4")

-----------------------------------------------------------------------------
(* row_offsets_for_counts *)

\* math.floor(raw_center / h_pitch) in double arithmetic.  raw_center is
\* ((non_stagger_max - count) * h_pitch) / 2.0.  For h_pitch = 2.80 mm the
\* quotients 8.4 / 2.8 and 16.8 / 2.8 evaluate to 2.9999999999999996 and
\* 5.999999999999999, so the floor is one short of the exact one.  At every
\* other count difference up to 23, for 2.80 mm and for the other pitches of
\* this model, the floor is the exact one.
FloorOneShort(raw_center, h_pitch) == h_pitch = 280 /\ raw_center \in {840, 1680}

FloorQuotient(raw_center, h_pitch) ==
    (raw_center \div h_pitch) - (IF FloorOneShort(raw_center, h_pitch) THEN 1 ELSE 0)

\* the centring offset of the non-staggered rows is not floor-quantized
row_offsets_for_counts_unquantized(counts, h_pitch, stagger) ==
    LET idxs == 1 .. Len(counts)
        non_stagger_max == MaxOrZero({counts[i] : i \in {j \in idxs : stagger[j] = 0}})
        stagger_max == MaxOrZero({counts[i] : i \in {j \in idxs : stagger[j] # 0}})
    IN [idx \in idxs |->
          stagger[idx] +
          (IF stagger[idx] = 0
           THEN Half((non_stagger_max - counts[idx]) * h_pitch)
           ELSE Half((stagger_max - counts[idx]) * h_pitch))]

row_offsets_for_counts(counts, h_pitch, stagger) ==
    LET idxs == 1 .. Len(counts)
        non_stagger_max == MaxOrZero({counts[i] : i \in {j \in idxs : stagger[j] = 0}})
        stagger_max == MaxOrZero({counts[i] : i \in {j \in idxs : stagger[j] # 0}})
    IN [idx \in idxs |->
          stagger[idx] +
          (IF stagger[idx] = 0
           THEN LET raw_center == Half((non_stagger_max - counts[idx]) * h_pitch)
                IN FloorQuotient(raw_center, h_pitch) * h_pitch
           ELSE Half((stagger_max - counts[idx]) * h_pitch))]

\* the stagger list of generate_pin_positions (rows are 0-based in the code)
StaggerFor(rows, h, row_offset_mm) ==
    [idx \in 1 .. rows |->
        IF (idx - 1) % 2 = 1
        THEN (IF row_offset_mm.present THEN row_offset_mm.val ELSE Half(h))
        ELSE 0]

-----------------------------------------------------------------------------
(* generate_pin_positions *)

\* counts = row_counts or distribute_pins(pin_count, rows): None and [] are both falsy
CountsDerived(row_counts) == ~row_counts.present \/ row_counts.val = <<>>

\* numbering restarts at 1 in every row
RECURSIVE PlacePinsPerRow(_, _, _, _, _, _)
PlacePinsPerRow(counts, row_offsets, h, v, r, n) ==
    IF r >= Len(counts) THEN <<>>
    ELSE LET cnt == counts[r + 1]
             row == [i \in 1 .. cnt |->
                       [n |-> i, row |-> r,
                        x |-> (i - 1) * h + row_offsets[r + 1], y |-> r * v]]
         IN row \o PlacePinsPerRow(counts, row_offsets, h, v, r + 1, n + cnt)

\* the nested placement loop; r is the 0-based row, n the next pin number
RECURSIVE PlacePins(_, _, _, _, _, _)
PlacePins(counts, row_offsets, h, v, r, n) ==
    IF r >= Len(counts) THEN <<>>
    ELSE LET cnt == counts[r + 1]
             row == [i \in 1 .. cnt |->
                       [n |-> n + i - 1, row |-> r,
                        x |-> (i - 1) * h + row_offsets[r + 1], y |-> r * v]]
         IN row \o PlacePins(counts, row_offsets, h, v, r + 1, n + cnt)

Xs(pins) == {pins[k].x : k \in 1 .. Len(pins)}
Ys(pins) == {pins[k].y : k \in 1 .. Len(pins)}

\* centres on the midpoint between the first and the last pin of the list
RecenterFirstLast(pins) ==
    LET cx == Half(pins[1].x + pins[Len(pins)].x)
        cy == Half(pins[1].y + pins[Len(pins)].y)
    IN [k \in 1 .. Len(pins) |-> [pins[k] EXCEPT !.x = @ - cx, !.y = @ - cy]]

\* shift by the bounding-box midpoint; pins is not empty
Recenter(pins) ==
    LET cx == Half(SetMin(Xs(pins)) + SetMax(Xs(pins)))
        cy == Half(SetMin(Ys(pins)) + SetMax(Ys(pins)))
    IN [k \in 1 .. Len(pins) |-> [pins[k] EXCEPT !.x = @ - cx, !.y = @ - cy]]

NegateX(pins) == [k \in 1 .. Len(pins) |-> [pins[k] EXCEPT !.x = -@]]

\* the gender mirror is left out
MirrorGenderNone(pins, gender) == pins

MirrorGender(pins, gender) == IF gender = "female" THEN NegateX(pins) ELSE pins

\* the view mirror is left out
MirrorViewNone(pins, view) == pins

MirrorView(pins, view) == IF view = "solder" THEN NegateX(pins) ELSE pins

\* a is the record of the arguments pin_count, rows, h, v, row_counts,
\* row_offsets, row_offset_mm
generate_pin_positions(a, view, gender) ==
    LET derived == CountsDerived(a.row_counts)
        d == distribute_pins(a.pin_count, a.rows)
    IN IF derived /\ ~d.ok THEN Raised(d.err)
       ELSE
       LET counts == IF derived THEN d.val ELSE a.row_counts.val
       IN IF Sum(counts) # a.pin_count THEN Raised("row_counts sum != pin_count")
          ELSE IF Len(counts) # a.rows THEN Raised("row_counts length != rows")
          ELSE IF a.row_offsets.present /\ Len(a.row_offsets.val) # a.rows
               THEN Raised("row_offsets length != rows")
          ELSE
          LET row_offsets ==
                  IF a.row_offsets.present THEN a.row_offsets.val
                  ELSE row_offsets_for_counts(
                           counts, a.h, StaggerFor(a.rows, a.h, a.row_offset_mm))
              pins == PlacePins(counts, row_offsets, a.h, a.v, 0, 1)
          IN IF pins = <<>> THEN Raised("min() arg is an empty sequence")
             ELSE Returned(MirrorView(MirrorGender(Recenter(pins), gender), view))

-----------------------------------------------------------------------------
(* The calls generate_all makes for one connector *)

genders == <<"male", "female">>
views == <<"outside", "solder">>

\* for gender in genders: for view in views
Combos == <<[gender |-> genders[1], view |-> views[1]],
            [gender |-> genders[1], view |-> views[2]],
            [gender |-> genders[2], view |-> views[1]],
            [gender |-> genders[2], view |-> views[2]]>>

ComboOf(gender, view) == CHOOSE k \in 1 .. Len(Combos) :
                             Combos[k].gender = gender /\ Combos[k].view = view

-----------------------------------------------------------------------------
(* Inputs *)

DistInputs == [pin_count : 0 .. MaxDistPins, rows : RowInputs]

\* (h_pitch, v_pitch) pairs
Pitches == {[h |-> 4, v |-> 6], [h |-> 8, v |-> 2]}

\* configured stagger magnitudes (row_offset_mm)
StaggerChoices == {Absent(0), Present(0), Present(6)}

\* explicit row_offsets lists: empty, or a ramp of rows or rows + 1 entries
OffsetSlopes == {-2, 6}
ExplicitOffsets(rows) ==
    {<<>>} \cup {[i \in 1 .. n |-> s * (i - 1)] : n \in {rows, rows + 1}, s \in OffsetSlopes}

OffsetChoices(rows) ==
    {[row_offsets |-> Absent(<<>>), row_offset_mm |-> m] : m \in StaggerChoices}
    \cup {[row_offsets |-> Present(o), row_offset_mm |-> Absent(0)] :
              o \in ExplicitOffsets(rows)}

\* row_counts: absent, or any list of at most MaxRows entries in 0 .. MaxCount
CountChoices ==
    {Absent(<<>>)} \cup {Present(c) : c \in SeqsUpTo(0 .. MaxCount, MaxRows)}

Near(a, b) == a - b \in {-1, 0, 1}

\* A supplied, non-empty row_counts is paired with the pin_count and rows values
\* that match it or miss it by one; a derived one with every pin_count and rows.
PinCountsFor(rc) == {k \in 0 .. MaxPins : CountsDerived(rc) \/ Near(k, Sum(rc.val))}
RowsFor(rc) == {r \in RowInputs : CountsDerived(rc) \/ Near(r, Len(rc.val))}

PinInput(n, rows, p, rc, o) ==
    [pin_count |-> n, rows |-> rows, h |-> p.h, v |-> p.v, row_counts |-> rc,
     row_offsets |-> o.row_offsets, row_offset_mm |-> o.row_offset_mm]

IdlePinInput ==
    [pin_count |-> 0, rows |-> 0, h |-> 4, v |-> 6, row_counts |-> Absent(<<>>),
     row_offsets |-> Absent(<<>>), row_offset_mm |-> Absent(0)]

DistIdle == dist_in = [pin_count |-> 0, rows |-> 0] /\ dist_out = NotCalled
PinIdle == pin_in = IdlePinInput /\ pin_out = <<>>
BatchIdle ==
    /\ catalog = <<>>
    /\ pc = "idle"
    /\ all_errors = <<>>
    /\ checked = 0
    /\ spec_i = 0
    /\ combo_i = 0
    /\ writes = <<>>
    /\ written = 0
StemIdle == stem_in = <<>> /\ stem_out = NotCalled /\ stem_again = NotCalled /\ names = <<>>
OffIdle == off_in = IdlePinInput /\ off_out = NotCalled /\ off_pins = NotCalled
DrawIdle == draw_in = <<>> /\ draw_out = NotCalled
PathIdle == path_pts = <<>> /\ path_i = 0 /\ path_cmds = <<>> /\ path_pc = "idle"
DimIdle == dim_calls = <<>> /\ dim_layers = <<>> /\ dim_last = NotCalled
NormIdle == norm_in = <<>> /\ norm_out = NotCalled /\ norm_drawn = NotCalled
RestIdle == StemIdle /\ OffIdle /\ DrawIdle /\ PathIdle /\ DimIdle /\ NormIdle

-----------------------------------------------------------------------------
(* Specification of distribute_pins called on its own *)

DistInit ==
    /\ dist_in \in DistInputs
    /\ dist_out = NotCalled
    /\ PinIdle
    /\ BatchIdle
    /\ RestIdle

CallDistribute ==
    /\ dist_out = NotCalled
    /\ dist_out' = distribute_pins(dist_in.pin_count, dist_in.rows)
    /\ UNCHANGED <<dist_in, pinVars, batchVars, restVars>>

DistNext == CallDistribute

SpecDistribute == DistInit /\ [][DistNext]_vars

-----------------------------------------------------------------------------
(* Specification of the four pin layouts drawn for one connector *)

PinInit ==
    /\ \E rc \in CountChoices : \E rows \in RowsFor(rc) : \E n \in PinCountsFor(rc) :
          \E p \in Pitches : \E o \in OffsetChoices(rows) :
              pin_in = PinInput(n, rows, p, rc, o)
    /\ pin_out = <<>>
    /\ DistIdle
    /\ BatchIdle
    /\ RestIdle

\* the next (gender, view) pair of generate_all's loops reaches
\* generate_pin_positions through generate_svg
CallPinPositions ==
    /\ Len(pin_out) < Len(Combos)
    /\ LET c == Combos[Len(pin_out) + 1]
       IN pin_out' = Append(pin_out, generate_pin_positions(pin_in, c.view, c.gender))
    /\ UNCHANGED <<pin_in, distVars, batchVars, restVars>>

PinNext == CallPinPositions

SpecPins == PinInit /\ [][PinNext]_vars

-----------------------------------------------------------------------------
(* Specification of the row layout: the offsets generate_pin_positions      *)
(* derives and the pins it places with them, before the centroid shift      *)

\* largest row count of a layout
MaxOffCount == 7

\* (h_pitch, v_pitch) pairs: 2.28 x 1.98 mm and 2.80 x 2.84 mm
OffPitches == {[h |-> 228, v |-> 198], [h |-> 280, v |-> 284]}

\* row_offset_mm: absent (stagger h_pitch / 2), 0 (no stagger), 1.00 mm
OffStaggers == {Absent(0), Present(0), Present(100)}

\* row_counts of rows entries in 0 .. MaxOffCount
OffCounts(rows) == [1 .. rows -> 0 .. MaxOffCount]

\* counts = row_counts or distribute_pins(pin_count, rows)
LayoutCounts(a) ==
    IF CountsDerived(a.row_counts) THEN distribute_pins(a.pin_count, a.rows).val
    ELSE a.row_counts.val

OffInit ==
    /\ \E rows \in SupportedRows : \E p \in OffPitches : \E m \in OffStaggers :
          \/ \E c \in OffCounts(rows) :
                off_in = PinInput(Sum(c), rows, p, Present(c),
                                  [row_offsets |-> Absent(<<>>), row_offset_mm |-> m])
          \/ \E n \in 0 .. MaxOffCount :
                off_in = PinInput(n, rows, p, Absent(<<>>),
                                  [row_offsets |-> Absent(<<>>), row_offset_mm |-> m])
    /\ off_out = NotCalled
    /\ off_pins = NotCalled
    /\ DistIdle
    /\ PinIdle
    /\ BatchIdle
    /\ StemIdle
    /\ DrawIdle
    /\ PathIdle
    /\ DimIdle
    /\ NormIdle

\* the stagger list and row_offsets_for_counts(counts, h_pitch, stagger)
ComputeOffsets ==
    /\ off_out = NotCalled
    /\ off_out' = Returned(row_offsets_for_counts(
                       LayoutCounts(off_in), off_in.h,
                       StaggerFor(off_in.rows, off_in.h, off_in.row_offset_mm)))
    /\ UNCHANGED <<off_in, off_pins, distVars, pinVars, batchVars, stemVars,
                   drawVars, pathVars, dimVars, normVars>>

\* the placement loops
PlaceRows ==
    /\ off_out.ok
    /\ off_pins = NotCalled
    /\ off_pins' = Returned(PlacePins(LayoutCounts(off_in), off_out.val,
                                      off_in.h, off_in.v, 0, 1))
    /\ UNCHANGED <<off_in, off_out, distVars, pinVars, batchVars, stemVars,
                   drawVars, pathVars, dimVars, normVars>>

OffNext ==
    \/ ComputeOffsets
    \/ PlaceRows

SpecOffsets == OffInit /\ [][OffNext]_vars

-----------------------------------------------------------------------------
(* sanitize_stem; a string is the sequence of its characters *)

LowerLetters ==
    <<"a", "b", "c", "d", "e", "f", "g", "h", "i", "j", "k", "l", "m",
      "n", "o", "p", "q", "r", "s", "t", "u", "v", "w", "x", "y", "z">>
UpperLetters ==
    <<"A", "B", "C", "D", "E", "F", "G", "H", "I", "J", "K", "L", "M",
      "N", "O", "P", "Q", "R", "S", "T", "U", "V", "W", "X", "Y", "Z">>
Digits == {"0", "1", "2", "3", "4", "5", "6", "7", "8", "9"}
Whitespace == {" "}

\* the class [a-z0-9]
Alnum == {LowerLetters[i] : i \in 1 .. Len(LowerLetters)} \cup Digits

\* str.lower() on one character
LowerChar(c) ==
    IF \E i \in 1 .. Len(UpperLetters) : UpperLetters[i] = c
    THEN LowerLetters[CHOOSE i \in 1 .. Len(UpperLetters) : UpperLetters[i] = c]
    ELSE c

Lower(s) == [i \in 1 .. Len(s) |-> LowerChar(s[i])]

RECURSIVE LStrip(_, _)
LStrip(s, chars) ==
    IF s # <<>> /\ Head(s) \in chars THEN LStrip(Tail(s), chars) ELSE s

RECURSIVE RStrip(_, _)
RStrip(s, chars) ==
    IF s # <<>> /\ s[Len(s)] \in chars THEN RStrip(SubSeq(s, 1, Len(s) - 1), chars) ELSE s

\* str.strip() and str.strip(chars)
Strip(s, chars) == RStrip(LStrip(s, chars), chars)

\* re.sub(r"[^a-z0-9]+", "_", s)
RECURSIVE SubNonAlnumRuns(_)
SubNonAlnumRuns(s) ==
    IF s = <<>> THEN <<>>
    ELSE IF Head(s) \in Alnum THEN <<Head(s)>> \o SubNonAlnumRuns(Tail(s))
    ELSE <<"_">> \o SubNonAlnumRuns(LStrip(s, {s[i] : i \in 1 .. Len(s)} \ Alnum))

\* re.sub(r"_+", "_", s)
RECURSIVE SubUnderscoreRuns(_)
SubUnderscoreRuns(s) ==
    IF s = <<>> THEN <<>>
    ELSE IF Head(s) # "_" THEN <<Head(s)>> \o SubUnderscoreRuns(Tail(s))
    ELSE <<"_">> \o SubUnderscoreRuns(LStrip(s, {"_"}))

\* the underscores are trimmed before the runs are replaced, not after
sanitize_stem_trim_first(stem) ==
    SubUnderscoreRuns(SubNonAlnumRuns(Strip(Lower(Strip(stem, Whitespace)), {"_"})))

sanitize_stem(stem) ==
    Strip(SubUnderscoreRuns(SubNonAlnumRuns(Lower(Strip(stem, Whitespace)))), {"_"})

GenderChars(gender) ==
    IF gender = "male" THEN <<"m", "a", "l", "e">>
    ELSE <<"f", "e", "m", "a", "l", "e">>
ViewChars(view) ==
    IF view = "outside" THEN <<"o", "u", "t", "s", "i", "d", "e">>
    ELSE <<"s", "o", "l", "d", "e", "r">>

\* the view is left out of the file name
FileNameWithoutView(file_tag, gender, view) ==
    sanitize_stem(file_tag \o <<"_">> \o GenderChars(gender)) \o <<".", "s", "v", "g">>

\* the stem is used as it is, without sanitize_stem
FileNameUnsanitized(file_tag, gender, view) ==
    file_tag \o <<"_">> \o GenderChars(gender) \o <<"_">> \o ViewChars(view)
        \o <<".", "s", "v", "g">>

\* f"{sanitize_stem(f'{file_tag}_{gender}_{view}')}.svg"
FileName(file_tag, gender, view) ==
    sanitize_stem(file_tag \o <<"_">> \o GenderChars(gender) \o <<"_">> \o ViewChars(view))
        \o <<".", "s", "v", "g">>

-----------------------------------------------------------------------------
(* Specification of sanitize_stem and of the file names built from one tag *)

\* longest tag
MaxTagLen == 4

\* characters a tag is made of: lower case, upper case, digit, punctuation,
\* underscore, blank
TagChars == {"a", "B", "9", "-", "_", " "}

StemInit ==
    /\ stem_in \in SeqsUpTo(TagChars, MaxTagLen)
    /\ stem_out = NotCalled
    /\ stem_again = NotCalled
    /\ names = <<>>
    /\ DistIdle
    /\ PinIdle
    /\ BatchIdle
    /\ OffIdle
    /\ DrawIdle
    /\ PathIdle
    /\ DimIdle
    /\ NormIdle

CallSanitize ==
    /\ stem_out = NotCalled
    /\ stem_out' = Returned(sanitize_stem(stem_in))
    /\ UNCHANGED <<stem_in, stem_again, names, distVars, pinVars, batchVars,
                   offVars, drawVars, pathVars, dimVars, normVars>>

\* sanitize_stem called on its own result
CallSanitizeAgain ==
    /\ stem_out.ok
    /\ stem_again = NotCalled
    /\ stem_again' = Returned(sanitize_stem(stem_out.val))
    /\ UNCHANGED <<stem_in, stem_out, names, distVars, pinVars, batchVars,
                   offVars, drawVars, pathVars, dimVars, normVars>>

\* generate_all's inner loop builds the file name of the next (gender, view)
BuildFileName ==
    /\ Len(names) < Len(Combos)
    /\ LET c == Combos[Len(names) + 1]
       IN names' = Append(names, FileName(stem_in, c.gender, c.view))
    /\ UNCHANGED <<stem_in, stem_out, stem_again, distVars, pinVars, batchVars,
                   offVars, drawVars, pathVars, dimVars, normVars>>

StemNext ==
    \/ CallSanitize
    \/ CallSanitizeAgain
    \/ BuildFileName

SpecStem == StemInit /\ [][StemNext]_vars

-----------------------------------------------------------------------------
(* validate_connector, load_specs, generate_svg, generate_all *)

\* One connector of the catalog: its file tag (asset_tag or id) and the
\* insert fields total_contacts, rows and contacts_per_row.  Pitches, shell
\* and flange data are valid and the same for every connector.
ConnectorTags == {<<"d", "9">>, <<"D", "9">>, <<"d", "-", "9">>}
ConnectorInserts ==
    [total_contacts : {3},
     rows : {2, 3},
     contacts_per_row : {Absent(<<>>), Present(<<>>), Present(<<2, 1>>),
                         Present(<<2, 2>>), Present(<<1, 1, 2>>), Present(<<3, 0>>)}]
Connectors == [tag : ConnectorTags, insert : ConnectorInserts]
BatchPitch == [h |-> 4, v |-> 6]

\* the messages validate_connector returns for connector number i
validate_connector(item, i) ==
    LET pins == item.insert.total_contacts
        row_counts == item.insert.contacts_per_row.val
        rows == IF item.insert.rows # 0 THEN item.insert.rows ELSE Len(row_counts)
    IN (IF row_counts # <<>> /\ Sum(row_counts) # pins
        THEN <<[conn |-> i, kind |-> "sum"]>> ELSE <<>>)
       \o (IF row_counts # <<>> /\ rows # Len(row_counts)
           THEN <<[conn |-> i, kind |-> "len"]>> ELSE <<>>)

\* the DSubSpec fields load_specs hands to generate_pin_positions
SpecOf(item) ==
    PinInput(item.insert.total_contacts, item.insert.rows, BatchPitch,
             item.insert.contacts_per_row,
             [row_offsets |-> Absent(<<>>), row_offset_mm |-> Absent(0)])

\* whether generate_svg returns a document: generate_pin_positions returns,
\* and every row has a pin to label (row_pins[0])
GenerateSvgOk(spec, gender, view) ==
    LET r == generate_pin_positions(spec, view, gender)
    IN /\ r.ok
       /\ \A row \in 0 .. spec.rows - 1 :
             \E k \in 1 .. Len(r.val) : r.val[k].row = row

Terminal == {"done", "aborted", "failed"}

BatchInit ==
    /\ catalog \in UNION {[1 .. n -> Connectors] : n \in 0 .. MaxConnectors}
    /\ pc = "validate"
    /\ all_errors = <<>>
    /\ checked = 0
    /\ spec_i = 0
    /\ combo_i = 0
    /\ writes = <<>>
    /\ written = 0
    /\ DistIdle
    /\ PinIdle
    /\ RestIdle

\* load_specs, first loop: all_errors.extend(validate_connector(item))
ValidateConnector ==
    /\ pc = "validate"
    /\ checked < Len(catalog)
    /\ all_errors' = all_errors \o validate_connector(catalog[checked + 1], checked + 1)
    /\ checked' = checked + 1
    /\ UNCHANGED <<catalog, pc, spec_i, combo_i, writes, written, distVars, pinVars, restVars>>

\* load_specs: if all_errors: ... raise SystemExit
AbortOnErrors ==
    /\ pc = "validate"
    /\ checked = Len(catalog)
    /\ all_errors # <<>>
    /\ pc' = "aborted"
    /\ UNCHANGED <<catalog, all_errors, checked, spec_i, combo_i, writes, written,
                   distVars, pinVars, restVars>>

\* load_specs returns the specs and generate_all enters its loops
StartRendering ==
    /\ pc = "validate"
    /\ checked = Len(catalog)
    /\ all_errors = <<>>
    /\ pc' = "render"
    /\ spec_i' = 1
    /\ combo_i' = 1
    /\ UNCHANGED <<catalog, all_errors, checked, writes, written, distVars, pinVars, restVars>>

\* one pass of the inner loop: generate_svg, write_text, written += 1
RenderAndWrite ==
    /\ pc = "render"
    /\ spec_i <= Len(catalog)
    /\ LET item == catalog[spec_i]
           c == Combos[combo_i]
       IN /\ GenerateSvgOk(SpecOf(item), c.gender, c.view)
          /\ writes' = Append(writes, FileName(item.tag, c.gender, c.view))
    /\ written' = written + 1
    /\ IF combo_i < Len(Combos)
       THEN combo_i' = combo_i + 1 /\ spec_i' = spec_i
       ELSE combo_i' = 1 /\ spec_i' = spec_i + 1
    /\ UNCHANGED <<catalog, pc, all_errors, checked, distVars, pinVars, restVars>>

\* generate_svg raises and the exception leaves generate_all
RenderFails ==
    /\ pc = "render"
    /\ spec_i <= Len(catalog)
    /\ ~GenerateSvgOk(SpecOf(catalog[spec_i]), Combos[combo_i].gender, Combos[combo_i].view)
    /\ pc' = "failed"
    /\ UNCHANGED <<catalog, all_errors, checked, spec_i, combo_i, writes, written,
                   distVars, pinVars, restVars>>

\* return written
ReturnWritten ==
    /\ pc = "render"
    /\ spec_i > Len(catalog)
    /\ pc' = "done"
    /\ UNCHANGED <<catalog, all_errors, checked, spec_i, combo_i, writes, written,
                   distVars, pinVars, restVars>>

BatchNext ==
    \/ ValidateConnector
    \/ AbortOnErrors
    \/ StartRendering
    \/ RenderAndWrite
    \/ RenderFails
    \/ ReturnWritten

SpecBatch == BatchInit /\ [][BatchNext]_vars

-----------------------------------------------------------------------------
(* generate_svg: the shell opening and the layers of the document.          *)
(* Lengths are in units of 0.01 mm.  Positions are taken relative to the    *)
(* flange centre (cx, cy), which the code adds to the pins and to the       *)
(* opening alike.                                                           *)

ShellLetters == {"E", "A", "B", "C", "D"}

\* SHELL_GEOMETRY[shell_size][gender]
SHELL_GEOMETRY(shell_size, gender) ==
    LET male == gender = "male"
    IN CASE shell_size = "E" ->
              [opening_top_w |-> IF male THEN 1690 ELSE 1630,
               opening_h |-> IF male THEN 830 ELSE 790, flange_h |-> 1250]
         [] shell_size = "A" ->
              [opening_top_w |-> IF male THEN 2525 ELSE 2460,
               opening_h |-> IF male THEN 830 ELSE 790, flange_h |-> 1250]
         [] shell_size = "B" ->
              [opening_top_w |-> IF male THEN 3895 ELSE 3840,
               opening_h |-> IF male THEN 830 ELSE 790, flange_h |-> 1250]
         [] shell_size = "C" ->
              [opening_top_w |-> IF male THEN 5540 ELSE 5480,
               opening_h |-> IF male THEN 830 ELSE 790, flange_h |-> 1250]
         [] shell_size = "D" ->
              [opening_top_w |-> IF male THEN 5280 ELSE 5220,
               opening_h |-> IF male THEN 1115 ELSE 1090, flange_h |-> 1530]

\* clearance_x = 3.0, clearance_y = 2.8, and the 6.0 of outer_w - 6.0
clearance_x == 300
clearance_y == 280
FlangeMargin == 600

Max2(a, b) == IF a >= b THEN a ELSE b
Min2(a, b) == IF a <= b THEN a ELSE b

\* 2.0 * math.tan(math.radians(10.0)) * opening_h_eff, with
\* 2 tan(10 deg) = 0.35265..., rounded down to the unit
Taper(opening_h_eff) == (35265 * opening_h_eff) \div 100000

\* The trapezoid of lines 468-496: the corners are (-top_w/2, -h/2),
\* (top_w/2, -h/2), (bottom_w/2, h/2), (-bottom_w/2, h/2) about the centre.
Opening(spec, gender, pins) ==
    LET pin_w == SetMax(Xs(pins)) - SetMin(Xs(pins))
        pin_h == SetMax(Ys(pins)) - SetMin(Ys(pins))
        geo == SHELL_GEOMETRY(spec.shell_size, gender)
        opening_h_eff == Max2(geo.opening_h, pin_h + 2 * clearance_y)
        opening_top_w_eff == Max2(geo.opening_top_w, pin_w + 2 * clearance_x)
        top_w == Min2(opening_top_w_eff, spec.flange_outer_width - FlangeMargin)
        bottom_w == Max2(top_w - Taper(opening_h_eff), pin_w + clearance_x)
    IN [pin_w |-> pin_w, pin_h |-> pin_h, h |-> opening_h_eff,
        top_w |-> top_w, bottom_w |-> bottom_w]

\* n elements of one kind
Elements(kind, n) == [i \in 1 .. n |-> kind]

\* dim_horizontal, dim_vertical: three lines, two arrowheads, one text
DimFigure == <<"line", "line", "line", "polygon", "polygon", "text">>
\* dim_h_simple, dim_v_simple_left: one line, two arrowheads, one text
SimpleDimFigure == <<"line", "polygon", "polygon", "text">>

\* add_info_block: nothing for no lines, else a title and the lines
InfoBlock(lines) == IF lines = 0 THEN <<>> ELSE Elements("text", 1 + lines)

PinsOfRow(pins, r) == SelectSeq(pins, LAMBDA p : p.row = r)

\* a group is added to the document only when it has content
layer_unless_empty(layers, layer_id, content) ==
    IF content = <<>> THEN layers
    ELSE Append(layers, [id |-> layer_id, elems |-> content])

\* layer(layer_id) together with what is later appended to the group
layer(layers, layer_id, content) ==
    Append(layers, [id |-> layer_id, elems |-> content])

\* spec carries the DSubSpec fields: those of generate_pin_positions,
\* shell_size, flange_outer_width, and in info the numbers of lines its
\* metadata gives the blocks (front, contacts, electrical, standards, panel)
generate_svg(spec, gender, view, include_caption) ==
    LET r == generate_pin_positions(spec, view, gender)
    IN IF ~r.ok THEN Raised(r.err)
       ELSE IF \E row \in 0 .. spec.rows - 1 : PinsOfRow(r.val, row) = <<>>
       THEN Raised("list index out of range")
       ELSE
       LET pins == r.val
           base == <<"rect", "circle", "circle", "path">>
                       \o Elements("circle", Len(pins))
           pin_labels == Elements("text", 2 * spec.rows)
           flange_dim == DimFigure \o DimFigure \o DimFigure
           pitch_dim ==
               (IF Len(PinsOfRow(pins, 0)) >= 2 THEN SimpleDimFigure ELSE <<>>)
               \o (IF spec.rows >= 2 THEN SimpleDimFigure \o SimpleDimFigure
                   ELSE <<>>)
           insert_info ==
               InfoBlock(4 + (IF spec.row_offset_mm.present THEN 1 ELSE 0)
                           + spec.info.front)
           caption == IF include_caption THEN <<"text">> ELSE <<>>
           l1 == layer(<<>>, "base", base)
           l2 == layer(l1, "pin_labels", pin_labels)
           l3 == layer(l2, "flange_dimensions", flange_dim)
           l4 == layer(l3, "pitch_dimensions", pitch_dim)
           l5 == layer(l4, "panel_cutout", InfoBlock(spec.info.panel))
           l6 == layer(l5, "insert_info", insert_info)
           l7 == layer(l6, "contacts_info", InfoBlock(spec.info.contacts))
           l8 == layer(l7, "electrical_info", InfoBlock(spec.info.electrical))
           l9 == layer(l8, "standards_info", InfoBlock(spec.info.standards))
           l10 == layer(l9, "caption", caption)
       IN Returned([layers |-> l10,
                    opening |-> Opening(spec, gender, pins),
                    outer_w |-> spec.flange_outer_width,
                    pins |-> pins])

-----------------------------------------------------------------------------
(* Specification of one generate_svg call *)

\* flange.outer_width_mm the catalog gives each shell letter
FlangeWidth(shell_size) ==
    CASE shell_size = "E" -> 3081
      [] shell_size = "A" -> 3914
      [] shell_size = "B" -> 5304
      [] shell_size = "C" -> 6932
      [] shell_size = "D" -> 6693

\* inserts: total_contacts, rows and pitch; standard density on a
\* 2.76 x 2.84 mm grid, high density on 2.28 x 1.98 mm
DrawInserts ==
    {[pin_count |-> n, rows |-> 2, h |-> 276, v |-> 284] : n \in {9, 15, 25, 37}}
    \cup {[pin_count |-> 50, rows |-> 3, h |-> 276, v |-> 284]}
    \cup {[pin_count |-> n, rows |-> 3, h |-> 228, v |-> 198] : n \in {2, 15, 26, 44, 62}}
    \cup {[pin_count |-> 78, rows |-> 4, h |-> 228, v |-> 198]}

\* metadata of a connector: none, or all of it
DrawInfos ==
    {[front |-> 0, contacts |-> 0, electrical |-> 0, standards |-> 0, panel |-> 0],
     [front |-> 1, contacts |-> 2, electrical |-> 2, standards |-> 3, panel |-> 2]}

DrawSpec(shell_size, ins, info) ==
    [pin_count |-> ins.pin_count, rows |-> ins.rows, h |-> ins.h, v |-> ins.v,
     row_counts |-> Absent(<<>>), row_offsets |-> Absent(<<>>),
     row_offset_mm |-> Absent(0), shell_size |-> shell_size,
     flange_outer_width |-> FlangeWidth(shell_size), info |-> info]

DrawInit ==
    /\ \E shell_size \in ShellLetters : \E ins \in DrawInserts : \E info \in DrawInfos :
          \E c \in 1 .. Len(Combos) : \E include_caption \in BOOLEAN :
              draw_in = [spec |-> DrawSpec(shell_size, ins, info),
                         gender |-> Combos[c].gender, view |-> Combos[c].view,
                         include_caption |-> include_caption]
    /\ draw_out = NotCalled
    /\ DistIdle
    /\ PinIdle
    /\ BatchIdle
    /\ StemIdle
    /\ OffIdle
    /\ PathIdle
    /\ DimIdle
    /\ NormIdle

CallGenerateSvg ==
    /\ draw_out = NotCalled
    /\ draw_out' = generate_svg(draw_in.spec, draw_in.gender, draw_in.view,
                                draw_in.include_caption)
    /\ UNCHANGED <<draw_in, distVars, pinVars, batchVars, stemVars, offVars,
                   pathVars, dimVars, normVars>>

DrawNext == CallGenerateSvg

SpecDraw == DrawInit /\ [][DrawNext]_vars

-----------------------------------------------------------------------------
(* rounded_polygon_path.  A command is <<"M", i>> or <<"L", i>> (move or    *)
(* line to p_start of vertex i), <<"A", i, sweep>> (arc to p_end of vertex  *)
(* i) or <<"Z">>; the coordinates of p_start and p_end are not modelled.    *)

\* most points handed to rounded_polygon_path
MaxVerts == 4

\* coordinates of the points
GridCoords == 0 .. 2
PathPoints == [x : GridCoords, y : GridCoords]

\* pts[(i - 1) % n], pts[i], pts[(i + 1) % n] for the 0-based index i
PrevPoint(pts, i) == pts[((i - 1) % Len(pts)) + 1]
CurrPoint(pts, i) == pts[i + 1]
NextPoint(pts, i) == pts[((i + 1) % Len(pts)) + 1]

\* (v1x, v1y) and (v2x, v2y)
V1(pts, i) == [x |-> PrevPoint(pts, i).x - CurrPoint(pts, i).x,
               y |-> PrevPoint(pts, i).y - CurrPoint(pts, i).y]
V2(pts, i) == [x |-> NextPoint(pts, i).x - CurrPoint(pts, i).x,
               y |-> NextPoint(pts, i).y - CurrPoint(pts, i).y]

Cross(a, b) == a.x * b.y - a.y * b.x
Dot(a, b) == a.x * b.x + a.y * b.y

\* ang == 0: acos of the dot product of the two unit vectors is 0.  Both
\* vectors are non-zero (unit gives (0, 0) for a zero vector, so the dot
\* product is 0) and point the same way.  In double arithmetic the dot
\* product of two equal unit vectors reaches 1.0, on the coordinates of this
\* model, only when they are parallel to an axis; for the other directions
\* it stays below 1.0 and the vertex is not skipped.
ZeroAngle(pts, i) ==
    LET v1 == V1(pts, i)
        v2 == V2(pts, i)
    IN /\ v1 # [x |-> 0, y |-> 0]
       /\ v2 # [x |-> 0, y |-> 0]
       /\ Cross(v1, v2) = 0
       /\ Dot(v1, v2) > 0
       /\ v1.x = 0 \/ v1.y = 0

\* sweep = 1 if cross < 0 else 0
Sweep(pts, i) == IF Cross(V1(pts, i), V2(pts, i)) < 0 THEN 1 ELSE 0

\* if i == 0: "M ..." else: "L ..."
FirstCmd(i) == IF i = 0 THEN <<"M", i>> ELSE <<"L", i>>

-----------------------------------------------------------------------------
(* Specification of one rounded_polygon_path call *)

PathInit ==
    /\ path_pts \in SeqsUpTo(PathPoints, MaxVerts)
    /\ path_i = 0
    /\ path_cmds = <<>>
    /\ path_pc = "check"
    /\ DistIdle
    /\ PinIdle
    /\ BatchIdle
    /\ StemIdle
    /\ OffIdle
    /\ DrawIdle
    /\ DimIdle
    /\ NormIdle

\* if len(pts) < 3: raise ValueError("Need >=3 points")
RejectShort ==
    /\ path_pc = "check"
    /\ Len(path_pts) < 3
    /\ path_pc' = "raised"
    /\ UNCHANGED <<path_pts, path_i, path_cmds, distVars, pinVars, batchVars,
                   stemVars, offVars, drawVars, dimVars, normVars>>

EnterLoop ==
    /\ path_pc = "check"
    /\ Len(path_pts) >= 3
    /\ path_pc' = "loop"
    /\ UNCHANGED <<path_pts, path_i, path_cmds, distVars, pinVars, batchVars,
                   stemVars, offVars, drawVars, dimVars, normVars>>

\* if ang == 0: continue
SkipVertex ==
    /\ path_pc = "loop"
    /\ path_i < Len(path_pts)
    /\ ZeroAngle(path_pts, path_i)
    /\ path_i' = path_i + 1
    /\ UNCHANGED <<path_pts, path_cmds, path_pc, distVars, pinVars, batchVars,
                   stemVars, offVars, drawVars, dimVars, normVars>>

\* the rest of the loop body: the move or line to p_start, the arc to p_end
RoundVertex ==
    /\ path_pc = "loop"
    /\ path_i < Len(path_pts)
    /\ ~ZeroAngle(path_pts, path_i)
    /\ path_cmds' = path_cmds \o <<FirstCmd(path_i),
                                   <<"A", path_i, Sweep(path_pts, path_i)>> >>
    /\ path_i' = path_i + 1
    /\ UNCHANGED <<path_pts, path_pc, distVars, pinVars, batchVars,
                   stemVars, offVars, drawVars, dimVars, normVars>>

\* cmds.append("Z"); return " ".join(cmds)
ClosePath ==
    /\ path_pc = "loop"
    /\ path_i = Len(path_pts)
    /\ path_cmds' = Append(path_cmds, <<"Z">>)
    /\ path_pc' = "returned"
    /\ UNCHANGED <<path_pts, path_i, distVars, pinVars, batchVars,
                   stemVars, offVars, drawVars, dimVars, normVars>>

PathNext ==
    \/ RejectShort
    \/ EnterLoop
    \/ SkipVertex
    \/ RoundVertex
    \/ ClosePath

SpecPath == PathInit /\ [][PathNext]_vars

-----------------------------------------------------------------------------
(* The dimension figures of generate_svg.  Coordinates are those of the    *)
(* document (x to the right, y downwards), in units of 0.005 mm: half the   *)
(* unit used above, so that cx = ox + outer_w / 2.0 and the arrowhead's     *)
(* half width size / 2 are exact.                                           *)

\* a length of the 0.01 mm unit, in the unit of this section
Fine(x) == 2 * x

\* add_line(parent, x1, y1, x2, y2, sw, dash): dash is "" for dash=None
add_line(parent, x1, y1, x2, y2, dash) ==
    Append(parent, [kind |-> "line", x1 |-> x1, y1 |-> y1,
                    x2 |-> x2, y2 |-> y2, dash |-> dash])

\* add_arrow(parent, x, y, direction, size): the polygon's points, tip first
add_arrow(parent, x, y, direction, size) ==
    LET pts ==
          CASE direction = "left" ->
                 << <<x, y>>, <<x + size, y - size \div 2>>, <<x + size, y + size \div 2>> >>
            [] direction = "right" ->
                 << <<x, y>>, <<x - size, y - size \div 2>>, <<x - size, y + size \div 2>> >>
            [] direction = "up" ->
                 << <<x, y>>, <<x - size \div 2, y + size>>, <<x + size \div 2, y + size>> >>
            [] direction = "down" ->
                 << <<x, y>>, <<x - size \div 2, y - size>>, <<x + size \div 2, y - size>> >>
    IN Append(parent, [kind |-> "polygon", points |-> pts])

\* add_text(parent, x, y, text, size, anchor, baseline)
add_text(parent, x, y, anchor) ==
    Append(parent, [kind |-> "text", x |-> x, y |-> y, anchor |-> anchor])

\* size=0.8 and size=0.75 of the arrowheads; the label distances 1.2 and 1.0
ArrowSize == 160
SimpleArrowSize == 150
LabelGap == 240
SimpleLabelGap == 200

dim_horizontal(parent, x1, x2, y_dim, y_ref) ==
    LET p1 == add_line(parent, x1, y_ref, x1, y_dim, "")
        p2 == add_line(p1, x2, y_ref, x2, y_dim, "")
        p3 == add_line(p2, x1, y_dim, x2, y_dim, "")
        p4 == add_arrow(p3, x1, y_dim, "right", ArrowSize)
        p5 == add_arrow(p4, x2, y_dim, "left", ArrowSize)
    IN add_text(p5, (x1 + x2) \div 2, y_dim - LabelGap, "middle")

dim_vertical(parent, y1, y2, x_dim, x_ref) ==
    LET p1 == add_line(parent, x_ref, y1, x_dim, y1, "")
        p2 == add_line(p1, x_ref, y2, x_dim, y2, "")
        p3 == add_line(p2, x_dim, y1, x_dim, y2, "")
        p4 == add_arrow(p3, x_dim, y1, "down", ArrowSize)
        p5 == add_arrow(p4, x_dim, y2, "up", ArrowSize)
    IN add_text(p5, x_dim + LabelGap, (y1 + y2) \div 2, "start")

dim_h_simple(parent, x1, x2, y) ==
    LET p1 == add_line(parent, x1, y, x2, y, "2 1")
        p2 == add_arrow(p1, x1, y, "right", SimpleArrowSize)
        p3 == add_arrow(p2, x2, y, "left", SimpleArrowSize)
    IN add_text(p3, (x1 + x2) \div 2, y - SimpleLabelGap, "middle")

dim_v_simple_left(parent, y1, y2, x) ==
    LET p1 == add_line(parent, x, y1, x, y2, "2 1")
        p2 == add_arrow(p1, x, y1, "down", SimpleArrowSize)
        p3 == add_arrow(p2, x, y2, "up", SimpleArrowSize)
    IN add_text(p3, x - SimpleLabelGap, (y1 + y2) \div 2, "end")

\* flange.mounting_hole_spacing_mm the catalog gives each shell letter
HolePitch(shell_size) ==
    CASE shell_size = "E" -> 2499
      [] shell_size = "A" -> 3332
      [] shell_size = "B" -> 4704
      [] shell_size = "C" -> 6350
      [] shell_size = "D" -> 6111

\* margin_left, margin_top = 38.0, 30.0
margin_left == 7600
margin_top == 6000

\* sorted(pins of the row, key=x)[k]
SortedRow(pins, r, k) ==
    LET row == PinsOfRow(pins, r)
        i == CHOOSE i \in 1 .. Len(row) :
                 Cardinality({j \in 1 .. Len(row) : row[j].x < row[i].x}) = k
    IN row[i]

DimCall(fn, layer_id, args) == [fn |-> fn, layer |-> layer_id, args |-> args]

\* The calls of lines 525-551 with their arguments, in order, for a spec
\* without shell_height_mm; drawing is what generate_svg has computed.
DimCalls(spec, gender, drawing) ==
    LET pins == drawing.pins
        outer_w == Fine(spec.flange_outer_width)
        outer_h == Fine(SHELL_GEOMETRY(spec.shell_size, gender).flange_h)
        hole_pitch == Fine(HolePitch(spec.shell_size))
        opening_h_eff == Fine(drawing.opening.h)
        ox == margin_left
        oy == margin_top
        cx == ox + outer_w \div 2
        cy == oy + outer_h \div 2
        hcx1 == cx - hole_pitch \div 2
        hcx2 == cx + hole_pitch \div 2
        top_y == cy - opening_h_eff \div 2
        r0 == SortedRow(pins, 0, 0)
        r1 == SortedRow(pins, 1, 0)
        flange ==
            <<DimCall("dim_horizontal", "flange_dimensions",
                      <<ox, ox + outer_w, oy - 3200, oy>>),
              DimCall("dim_horizontal", "flange_dimensions",
                      <<hcx1, hcx2, oy + outer_h + 3200, cy>>),
              DimCall("dim_vertical", "flange_dimensions",
                      <<oy, oy + outer_h, ox + outer_w + 2400, ox + outer_w>>)>>
        h_pitch ==
            IF Len(PinsOfRow(pins, 0)) >= 2
            THEN <<DimCall("dim_h_simple", "pitch_dimensions",
                           <<cx + Fine(SortedRow(pins, 0, 0).x),
                             cx + Fine(SortedRow(pins, 0, 1).x), top_y - 700>>)>>
            ELSE <<>>
        rows ==
            IF spec.rows >= 2
            THEN <<DimCall("dim_v_simple_left", "pitch_dimensions",
                           <<cy + Fine(r0.y), cy + Fine(r1.y), ox - 3600>>),
                   DimCall("dim_h_simple", "pitch_dimensions",
                           <<cx + Fine(r0.x), cx + Fine(r1.x),
                             cy + opening_h_eff \div 2 + 1500>>)>>
            ELSE <<>>
    IN flange \o h_pitch \o rows

-----------------------------------------------------------------------------
(* Specification of the dimension figures of one drawing *)

DimInit ==
    /\ \E shell_size \in ShellLetters : \E ins \in DrawInserts :
          \E c \in 1 .. Len(Combos) :
              LET spec == DrawSpec(shell_size, ins, CHOOSE info \in DrawInfos : TRUE)
                  drawing == generate_svg(spec, Combos[c].gender, Combos[c].view, TRUE)
              IN /\ drawing.ok
                 /\ dim_calls = DimCalls(spec, Combos[c].gender, drawing.val)
    /\ dim_layers = [flange_dimensions |-> <<>>, pitch_dimensions |-> <<>>]
    /\ dim_last = NotCalled
    /\ DistIdle
    /\ PinIdle
    /\ BatchIdle
    /\ StemIdle
    /\ OffIdle
    /\ DrawIdle
    /\ PathIdle
    /\ NormIdle

\* the next call is to fn: its figure is appended to the call's layer
DimStep(fn, figure) ==
    /\ dim_calls # <<>>
    /\ Head(dim_calls).fn = fn
    /\ dim_layers' = [dim_layers EXCEPT ![Head(dim_calls).layer] = figure]
    /\ dim_last' = Returned([call |-> Head(dim_calls),
                             before |-> dim_layers[Head(dim_calls).layer]])
    /\ dim_calls' = Tail(dim_calls)
    /\ UNCHANGED <<distVars, pinVars, batchVars, stemVars, offVars, drawVars, pathVars,
                   normVars>>

CallDimHorizontal ==
    /\ dim_calls # <<>>
    /\ LET c == Head(dim_calls)
       IN DimStep("dim_horizontal",
                  dim_horizontal(dim_layers[c.layer], c.args[1], c.args[2],
                                 c.args[3], c.args[4]))

CallDimVertical ==
    /\ dim_calls # <<>>
    /\ LET c == Head(dim_calls)
       IN DimStep("dim_vertical",
                  dim_vertical(dim_layers[c.layer], c.args[1], c.args[2],
                               c.args[3], c.args[4]))

CallDimHSimple ==
    /\ dim_calls # <<>>
    /\ LET c == Head(dim_calls)
       IN DimStep("dim_h_simple",
                  dim_h_simple(dim_layers[c.layer], c.args[1], c.args[2], c.args[3]))

CallDimVSimpleLeft ==
    /\ dim_calls # <<>>
    /\ LET c == Head(dim_calls)
       IN DimStep("dim_v_simple_left",
                  dim_v_simple_left(dim_layers[c.layer], c.args[1], c.args[2], c.args[3]))

DimNext ==
    \/ CallDimHorizontal
    \/ CallDimVertical
    \/ CallDimHSimple
    \/ CallDimVSimpleLeft

SpecDim == DimInit /\ [][DimNext]_vars

-----------------------------------------------------------------------------
(* report_catalog.py: the row counts the catalog normaliser stores for an   *)
(* insert, and the counts generate_pin_positions lays out for them.         *)

\* _to_int(value) or fallback: None and 0 are both falsy
IntOr(value, fallback) ==
    IF value.present /\ value.val # 0 THEN value.val ELSE fallback

\* counts = [base] * rows; for idx in range(rem): counts[idx] += 1
_distribute_contacts(total_contacts, rows) ==
    IF rows <= 0 THEN <<>>
    ELSE [idx \in 1 .. rows |->
            total_contacts \div rows
                + (IF idx <= total_contacts % rows THEN 1 ELSE 0)]

\* raw_insert carries total_contacts, rows and contacts_per_row, each absent
\* (None) or present; the result keeps the three normalised fields
_normalize_insert(raw_insert) ==
    LET given == IF raw_insert.contacts_per_row.present
                 THEN raw_insert.contacts_per_row.val ELSE <<>>
        rows == IntOr(raw_insert.rows, Len(given))
        total_contacts == IntOr(raw_insert.total_contacts, Sum(given))
        counts == IF given = <<>> /\ total_contacts # 0 /\ rows # 0
                  THEN _distribute_contacts(total_contacts, rows)
                  ELSE given
    IN IF rows # 0 /\ Len(counts) # rows
       THEN Raised("Invalid contacts_per_row length")
       ELSE IF total_contacts # 0 /\ Sum(counts) # total_contacts
       THEN Raised("Invalid contact sum")
       ELSE Returned([total_contacts |-> total_contacts, rows |-> rows,
                      contacts_per_row |-> counts])

\* lines 304-308 of generate_pin_positions: the counts it lays out
RowCountsUsed(pin_count, rows, row_counts) ==
    LET derived == CountsDerived(row_counts)
        d == distribute_pins(pin_count, rows)
    IN IF derived /\ ~d.ok THEN Raised(d.err)
       ELSE LET counts == IF derived THEN d.val ELSE row_counts.val
            IN IF Sum(counts) # pin_count THEN Raised("row_counts sum != pin_count")
               ELSE IF Len(counts) # rows THEN Raised("row_counts length != rows")
               ELSE Returned(counts)

-----------------------------------------------------------------------------
(* Specification of one insert definition on its way from the catalog to   *)
(* the drawing                                                              *)

\* largest total_contacts of an insert definition
MaxNormContacts == 50

\* contacts_per_row as the definition gives it: omitted, one count per row,
\* or a single count
GivenCounts(total_contacts, rows) ==
    {Absent(<<>>), Present(<<total_contacts>>)}
    \cup (IF rows.present
          THEN {Present([idx \in 1 .. rows.val |->
                           IF idx = 1 THEN total_contacts ELSE 0])}
          ELSE {})

NormInit ==
    /\ \E total_contacts \in 0 .. MaxNormContacts :
          \E rows \in {Absent(0)} \cup {Present(r) : r \in SupportedRows} :
              \E given \in GivenCounts(total_contacts, rows) :
                  norm_in = [total_contacts |-> Present(total_contacts),
                             rows |-> rows, contacts_per_row |-> given]
    /\ norm_out = NotCalled
    /\ norm_drawn = NotCalled
    /\ DistIdle
    /\ PinIdle
    /\ BatchIdle
    /\ StemIdle
    /\ OffIdle
    /\ DrawIdle
    /\ PathIdle
    /\ DimIdle

NormalizeInsert ==
    /\ norm_out = NotCalled
    /\ norm_out' = _normalize_insert(norm_in)
    /\ UNCHANGED <<norm_in, norm_drawn, distVars, pinVars, batchVars, stemVars,
                   offVars, drawVars, pathVars, dimVars>>

\* load_specs hands total_contacts, rows and contacts_per_row of the
\* normalised insert to generate_pin_positions as pin_count, rows, row_counts
LayOutRows ==
    /\ norm_out.ok
    /\ norm_drawn = NotCalled
    /\ norm_drawn' = RowCountsUsed(norm_out.val.total_contacts, norm_out.val.rows,
                                   Present(norm_out.val.contacts_per_row))
    /\ UNCHANGED <<norm_in, norm_out, distVars, pinVars, batchVars, stemVars,
                   offVars, drawVars, pathVars, dimVars>>

NormNext ==
    \/ NormalizeInsert
    \/ LayOutRows

SpecNormalize == NormInit /\ [][NormNext]_vars

-----------------------------------------------------------------------------
(* Properties of distribute_pins (checked under SpecDistribute) *)

DistCalled == dist_out # NotCalled

\* C1: for every pin_count n >= 0 and rows in {2, 3, 4}, distribute_pins
\* returns exactly rows non-negative counts whose sum is n and any two of
\* which differ by at most 1.
C1_EvenSplit ==
    (DistCalled /\ dist_in.rows \in SupportedRows) =>
        /\ dist_out.ok
        /\ Len(dist_out.val) = dist_in.rows
        /\ \A i \in 1 .. Len(dist_out.val) : dist_out.val[i] >= 0
        /\ Sum(dist_out.val) = dist_in.pin_count
        /\ \A i, j \in 1 .. Len(dist_out.val) : dist_out.val[i] - dist_out.val[j] <= 1

C1_Witness ==
    /\ DistCalled
    /\ dist_out.ok
    /\ dist_in.rows = 3
    /\ dist_in.pin_count % 3 = 2
    /\ dist_in.pin_count > 3

\* the reference rule of the distribution, in closed form
RefCounts(n, rows) ==
    IF rows = 2 THEN <<n - (n \div 2), n \div 2>>
    ELSE IF rows = 3 THEN
        [i \in 1 .. 3 |->
            (n \div 3) + (IF (n % 3 = 1 /\ i = 2) \/ (n % 3 = 2 /\ i \in {1, 3})
                          THEN 1 ELSE 0)]
    ELSE [i \in 1 .. 4 |-> (n \div 4) + (IF i <= n % 4 THEN 1 ELSE 0)]

\* C2: distribute_pins equals the reference rule for rows 2, 3 and 4; any
\* other rows value raises and returns no counts; n = 9, rows = 2 gives
\* [5, 4] and n = 50, rows = 3 gives [17, 16, 17].
C2_ReferenceRule ==
    DistCalled =>
        /\ dist_in.rows \in SupportedRows =>
               dist_out.ok /\ dist_out.val = RefCounts(dist_in.pin_count, dist_in.rows)
        /\ dist_in.rows \notin SupportedRows => ~dist_out.ok /\ dist_out.val = <<>>
        /\ (dist_in.pin_count = 9 /\ dist_in.rows = 2) => dist_out.val = <<5, 4>>
        /\ (dist_in.pin_count = 50 /\ dist_in.rows = 3) => dist_out.val = <<17, 16, 17>>

C2_Witness ==
    /\ DistCalled
    /\ dist_in.pin_count = 50
    /\ dist_in.rows = 3
    /\ dist_out.val = <<17, 16, 17>>

-----------------------------------------------------------------------------
(* Properties of generate_pin_positions (checked under SpecPins) *)

PinCalled(gender, view) == Len(pin_out) >= ComboOf(gender, view)
PinResult(gender, view) == pin_out[ComboOf(gender, view)]

\* b is a with every x negated: same length, order, number, row and y
IsXMirror(a, b) ==
    /\ Len(a) = Len(b)
    /\ \A k \in 1 .. Len(a) :
          /\ b[k].n = a[k].n
          /\ b[k].row = a[k].row
          /\ b[k].y = a[k].y
          /\ b[k].x = -a[k].x

\* C3: for fixed inputs and a fixed view, the list returned for "female" is
\* the list returned for "male" with every x negated.
C3_GenderMirror ==
    \A view \in {"outside", "solder"} :
        (PinCalled("male", view) /\ PinCalled("female", view)) =>
            LET m == PinResult("male", view)
                f == PinResult("female", view)
            IN /\ f.ok = m.ok
               /\ f.err = m.err
               /\ m.ok => IsXMirror(m.val, f.val)

C3_Witness ==
    /\ PinCalled("female", "outside")
    /\ PinResult("female", "outside").ok
    /\ PinResult("female", "outside").val # PinResult("male", "outside").val

\* C4: for fixed inputs and a fixed gender, the list returned for "solder" is
\* the list returned for "outside" with every x negated.
C4_ViewMirror ==
    \A gender \in {"male", "female"} :
        (PinCalled(gender, "outside") /\ PinCalled(gender, "solder")) =>
            LET o == PinResult(gender, "outside")
                b == PinResult(gender, "solder")
            IN /\ b.ok = o.ok
               /\ b.err = o.err
               /\ o.ok => IsXMirror(o.val, b.val)

C4_Witness ==
    /\ PinCalled("female", "solder")
    /\ PinResult("female", "solder").ok
    /\ PinResult("female", "solder").val # PinResult("female", "outside").val

\* C5: every returned pin set has its bounding box centred on the origin,
\* min_x + max_x = 0 and min_y + max_y = 0, for derived and explicit row
\* counts and offsets, after the gender and view mirrors.
C5_CentredOnOrigin ==
    \A k \in 1 .. Len(pin_out) :
        pin_out[k].ok =>
            /\ SetMin(Xs(pin_out[k].val)) + SetMax(Xs(pin_out[k].val)) = 0
            /\ SetMin(Ys(pin_out[k].val)) + SetMax(Ys(pin_out[k].val)) = 0

C5_Witness ==
    /\ Len(pin_out) = Len(Combos)
    /\ pin_out[Len(Combos)].ok
    /\ pin_in.row_counts.present
    /\ pin_in.row_offsets.present
    /\ pin_in.rows >= 3
    /\ Len(pin_in.row_counts.val) = pin_in.rows
    /\ pin_in.row_offsets.val[2] < 0
    /\ pin_in.row_counts.val[1] < pin_in.row_counts.val[3]

\* the row counts the drawing is laid out from
ExpectedCounts(a) ==
    IF a.row_counts.present /\ a.row_counts.val # <<>> THEN a.row_counts.val
    ELSE RefCounts(a.pin_count, a.rows)

\* C6: a returned list has exactly pin_count records; the k-th record has
\* number k; row indices are non-decreasing with exactly row_counts[r]
\* records in row r; the pins of a row share one y and consecutive rows are
\* exactly v_pitch apart; for every gender and view.
C6_RowMajorNumbering ==
    \A c \in 1 .. Len(pin_out) :
        pin_out[c].ok =>
            LET pins == pin_out[c].val
                counts == ExpectedCounts(pin_in)
                idx == 1 .. Len(pins)
            IN /\ Len(pins) = pin_in.pin_count
               /\ \A k \in idx : pins[k].n = k
               /\ \A k \in idx : pins[k].row \in 0 .. pin_in.rows - 1
               /\ \A k \in idx : k < Len(pins) => pins[k].row <= pins[k + 1].row
               /\ \A r \in 0 .. pin_in.rows - 1 :
                     Cardinality({k \in idx : pins[k].row = r}) = counts[r + 1]
               /\ \A j, k \in idx :
                     /\ pins[j].row = pins[k].row => pins[j].y = pins[k].y
                     /\ pins[k].row = pins[j].row + 1 => pins[k].y - pins[j].y = pin_in.v

C6_Witness ==
    /\ Len(pin_out) = Len(Combos)
    /\ pin_out[Len(Combos)].ok
    /\ pin_in.rows = 4
    /\ pin_in.pin_count >= 6
    /\ \E k \in 1 .. Len(pin_out[1].val) : pin_out[1].val[k].row = 3

\* C7: generate_pin_positions raises, instead of correcting the input,
\* whenever a supplied row_counts has a length other than rows or a sum other
\* than pin_count, and whenever a supplied row_offsets has a length other than
\* rows; also for a supplied row_counts that is empty.
C7_RejectsMismatch ==
    \A c \in 1 .. Len(pin_out) :
        (\/ /\ pin_in.row_counts.present
            /\ \/ Len(pin_in.row_counts.val) # pin_in.rows
               \/ Sum(pin_in.row_counts.val) # pin_in.pin_count
         \/ /\ pin_in.row_offsets.present
            /\ Len(pin_in.row_offsets.val) # pin_in.rows)
        => ~pin_out[c].ok

\* C8: a drawing request whose rows value is not 2, 3 or 4 raises and yields
\* no pin list, whether row_counts is absent or supplied.
C8_RejectsUnsupportedRows ==
    \A c \in 1 .. Len(pin_out) :
        pin_in.rows \notin SupportedRows => ~pin_out[c].ok

-----------------------------------------------------------------------------
(* Properties of the batch run (checked under SpecBatch) *)

\* a connector whose supplied contacts_per_row misses total_contacts or rows
SumViolation(item) ==
    /\ item.insert.contacts_per_row.present
    /\ Sum(item.insert.contacts_per_row.val) # item.insert.total_contacts
LenViolation(item) ==
    /\ item.insert.contacts_per_row.present
    /\ Len(item.insert.contacts_per_row.val) # item.insert.rows

Reported(i, kind) ==
    \E e \in 1 .. Len(all_errors) : all_errors[e] = [conn |-> i, kind |-> kind]

\* C9: every connector is validated before any document is written; if some
\* connector has sum(contacts_per_row) != total_contacts or
\* len(contacts_per_row) != rows, every such violation is in the report, the
\* run aborts and no document is written.
C9_AbortsOnAnyViolation ==
    /\ writes # <<>> => checked = Len(catalog)
    /\ (\E i \in 1 .. Len(catalog) : SumViolation(catalog[i]) \/ LenViolation(catalog[i]))
       => /\ writes = <<>>
          /\ pc \in Terminal =>
                /\ pc = "aborted"
                /\ \A i \in 1 .. Len(catalog) :
                      /\ SumViolation(catalog[i]) => Reported(i, "sum")
                      /\ LenViolation(catalog[i]) => Reported(i, "len")

Distinct(seq) == \A i, j \in 1 .. Len(seq) : i # j => seq[i] # seq[j]

\* 4N writes, one per (connector, gender, view) in loop order, to distinct
\* names, and the count 4N returned
OneDocumentEach ==
    /\ Len(writes) = Len(Combos) * Len(catalog)
    /\ written = Len(Combos) * Len(catalog)
    /\ \A i \in 1 .. Len(catalog) : \A k \in 1 .. Len(Combos) :
          writes[Len(Combos) * (i - 1) + k] =
              FileName(catalog[i].tag, Combos[k].gender, Combos[k].view)
    /\ Distinct(writes)

\* C10 as stated: a completed run over N connectors with pairwise distinct
\* tags writes 4N documents to 4N pairwise distinct file names and returns 4N.
C10_DistinctTags ==
    (pc = "done" /\ Distinct([i \in 1 .. Len(catalog) |-> catalog[i].tag]))
        => OneDocumentEach

\* C10 amended: a completed run over N connectors whose sanitized tags
\* (sanitize_stem of the tag) are pairwise distinct writes 4N documents, one
\* per (connector, gender, view), to 4N pairwise distinct file names, and
\* returns 4N.
C10_DistinctSanitizedTags ==
    (pc = "done" /\ Distinct([i \in 1 .. Len(catalog) |-> sanitize_stem(catalog[i].tag)]))
        => OneDocumentEach

C10_Witness ==
    /\ pc = "done"
    /\ Len(catalog) = 2
    /\ catalog[1].tag # Lower(catalog[1].tag)
    /\ sanitize_stem(catalog[1].tag) # sanitize_stem(catalog[2].tag)
    /\ Len(writes) = 8

-----------------------------------------------------------------------------
(* Properties of sanitize_stem and of the file names (checked under SpecStem) *)

\* The sanitizing rule in closed form: of the lower-cased string, keep every
\* character of [a-z0-9], and of every maximal run of other characters keep
\* the first one, as an underscore, unless the run starts or ends the string.
RefKept(l, i) ==
    \/ l[i] \in Alnum
    \/ /\ i > 1
       /\ l[i - 1] \in Alnum
       /\ \E j \in i + 1 .. Len(l) : l[j] \in Alnum

RefSanitize(s) ==
    LET l == Lower(s)
        kept == SelectSeq([i \in 1 .. Len(l) |-> i], LAMBDA i : RefKept(l, i))
    IN [k \in 1 .. Len(kept) |-> IF l[kept[k]] \in Alnum THEN l[kept[k]] ELSE "_"]

\* the name without its ".svg"
StemOf(name) == SubSeq(name, 1, Len(name) - 4)

\* only [a-z0-9_], no two adjacent underscores, no underscore at either end
WellFormedStem(st) ==
    /\ \A i \in 1 .. Len(st) : st[i] \in Alnum \cup {"_"}
    /\ \A i \in 1 .. Len(st) - 1 : ~(st[i] = "_" /\ st[i + 1] = "_")
    /\ st # <<>> => st[1] # "_" /\ st[Len(st)] # "_"

NameFromTag(k) ==
    RefSanitize(stem_in) \o <<"_">> \o GenderChars(Combos[k].gender) \o <<"_">>
        \o ViewChars(Combos[k].view) \o <<".", "s", "v", "g">>

\* C11 as stated: for every tag, gender and view the file name is
\* sanitize(tag) + "_" + gender + "_" + view + ".svg", and its stem contains
\* only [a-z0-9_], has no two adjacent underscores and neither starts nor
\* ends with an underscore.
C11_NameFromSanitizedTag ==
    \A k \in 1 .. Len(names) :
        /\ names[k] = NameFromTag(k)
        /\ WellFormedStem(StemOf(names[k]))

\* C11 amended: the file name is sanitize(tag) + "_" + gender + "_" + view +
\* ".svg" for every tag whose sanitized form is not empty, and gender + "_" +
\* view + ".svg" for a tag whose sanitized form is empty; in both cases the
\* stem contains only [a-z0-9_], has no two adjacent underscores and neither
\* starts nor ends with an underscore.
C11_NameFromNonEmptySanitizedTag ==
    \A k \in 1 .. Len(names) :
        /\ RefSanitize(stem_in) # <<>> => names[k] = NameFromTag(k)
        /\ RefSanitize(stem_in) = <<>> => names[k] = Tail(NameFromTag(k))
        /\ WellFormedStem(StemOf(names[k]))

C11_Witness ==
    /\ Len(names) = Len(Combos)
    /\ stem_in = <<"B", "-", " ", "9">>
    /\ names[3] = <<"b", "_", "9", "_", "f", "e", "m", "a", "l", "e", "_",
                    "o", "u", "t", "s", "i", "d", "e", ".", "s", "v", "g">>

\* C12: sanitize_stem is idempotent: applied to its own result it returns
\* that result unchanged, for every input string.
C12_Idempotent ==
    stem_again.ok => stem_again.val = stem_out.val

C12_Witness ==
    /\ stem_again.ok
    /\ stem_out.val # stem_in
    /\ Len(stem_out.val) >= 3
    /\ \E i \in 1 .. Len(stem_out.val) : stem_out.val[i] = "_"

-----------------------------------------------------------------------------
(* Properties of generate_svg (checked under SpecDraw) *)

Drawn == draw_out.ok

\* C13: in every drawing the bottom edge of the opening is no wider than the
\* top edge, bottom_w <= top_w, also when the flange clamp on the top edge or
\* the pin-clearance floor on the bottom edge is active.
C13_BottomNoWiderThanTop ==
    Drawn => draw_out.val.opening.bottom_w <= draw_out.val.opening.top_w

\* the ten layer identifiers, in document order
LayerIds ==
    <<"base", "pin_labels", "flange_dimensions", "pitch_dimensions",
      "panel_cutout", "insert_info", "contacts_info", "electrical_info",
      "standards_info", "caption">>

\* C14: every document generate_svg returns holds exactly one layer group for
\* each of the ten identifiers, each once and in this order, including the
\* layers left empty (the caption layer when the caption flag is off).
C14_TenLayersInOrder ==
    Drawn =>
        LET layers == draw_out.val.layers
        IN /\ Len(layers) = Len(LayerIds)
           /\ \A i \in 1 .. Len(layers) : layers[i].id = LayerIds[i]
           /\ \A i \in 1 .. Len(LayerIds) :
                 Cardinality({k \in 1 .. Len(layers) : layers[k].id = LayerIds[i]}) = 1

C14_Witness ==
    /\ Drawn
    /\ ~draw_in.include_caption
    /\ draw_in.spec.info.panel = 0
    /\ draw_out.val.layers[Len(LayerIds)] = [id |-> "caption", elems |-> <<>>]
    /\ draw_out.val.layers[5] = [id |-> "panel_cutout", elems |-> <<>>]
    /\ draw_out.val.layers[1].elems # <<>>

Abs(x) == IF x < 0 THEN -x ELSE x

\* p is between the top and bottom edges and between the side lines at its y
\* (twice the half-width of the trapezoid at p.y, times h, on the right-hand side)
PinInsideOpening(p, o) ==
    /\ 2 * Abs(p.y) <= o.h
    /\ 4 * Abs(p.x) * o.h <= o.top_w * (o.h - 2 * p.y) + o.bottom_w * (o.h + 2 * p.y)

\* C18: in every drawing every pin centre lies inside the opening trapezoid:
\* the effective opening height is at least pin_h + 2 * 2.8, the narrower
\* edge is at least pin_w + 3.0 wide, and the pin bounding box and the
\* opening share one centre, so each pin is within the side lines at its own
\* y and between the top and bottom edges, for every pin footprint and
\* flange width.
C18_PinsInsideOpening ==
    Drawn =>
        LET o == draw_out.val.opening
            pins == draw_out.val.pins
        IN /\ o.h >= o.pin_h + 2 * clearance_y
           /\ Min2(o.top_w, o.bottom_w) >= o.pin_w + clearance_x
           /\ SetMin(Xs(pins)) + SetMax(Xs(pins)) = 0
           /\ SetMin(Ys(pins)) + SetMax(Ys(pins)) = 0
           /\ \A k \in 1 .. Len(pins) : PinInsideOpening(pins[k], o)

\* C19: the opening never touches the flange edge horizontally: its top and
\* bottom edges are each at most flange_outer_width - 6.0 wide and centred on
\* the flange, for every pin footprint.
C19_OpeningInsideFlange ==
    Drawn =>
        /\ draw_out.val.opening.top_w <= draw_out.val.outer_w - FlangeMargin
        /\ draw_out.val.opening.bottom_w <= draw_out.val.outer_w - FlangeMargin

-----------------------------------------------------------------------------
(* A property of the batch run (checked under SpecBatch) *)

\* C15: if every connector of the catalog passes batch validation, no drawing
\* fails during geometric construction: generate_svg returns a document for
\* all four (gender, view) pairs of every connector, and the batch never
\* stops part-way with only some documents written.
C15_ValidatedBatchCompletes ==
    (checked = Len(catalog) /\ all_errors = <<>>) =>
        /\ pc # "failed"
        /\ \A i \in 1 .. Len(catalog) : \A k \in 1 .. Len(Combos) :
              GenerateSvgOk(SpecOf(catalog[i]), Combos[k].gender, Combos[k].view)

-----------------------------------------------------------------------------
(* Properties of the row layout (checked under SpecOffsets) *)

OffStagger == StaggerFor(off_in.rows, off_in.h, off_in.row_offset_mm)
\* rows (1-based) with stagger 0, and the others
NonStaggered == {i \in 1 .. off_in.rows : OffStagger[i] = 0}
Staggered == {i \in 1 .. off_in.rows : OffStagger[i] # 0}

\* C16: with derived offsets every non-staggered row gets the offset
\* floor((max_ns - count) / 2) * h_pitch, a whole non-negative multiple of
\* h_pitch; before the centroid shift every pin of a non-staggered row is at
\* x = k * h_pitch for an integer k, so any two such pins differ in x by a
\* whole multiple of h_pitch, for every row_counts.
C16_QuantizedCentring ==
    LET counts == LayoutCounts(off_in)
        max_ns == MaxOrZero({counts[i] : i \in NonStaggered})
    IN /\ off_out.ok =>
              \A i \in NonStaggered :
                  /\ off_out.val[i] = ((max_ns - counts[i]) \div 2) * off_in.h
                  /\ off_out.val[i] >= 0
                  /\ off_out.val[i] % off_in.h = 0
       /\ off_pins.ok =>
              \A j, k \in 1 .. Len(off_pins.val) :
                  (off_pins.val[j].row + 1 \in NonStaggered
                   /\ off_pins.val[k].row + 1 \in NonStaggered) =>
                      /\ off_pins.val[j].x % off_in.h = 0
                      /\ (off_pins.val[j].x - off_pins.val[k].x) % off_in.h = 0

\* C17: with the default stagger of h_pitch / 2 on the odd-indexed rows,
\* every pin of a staggered row lies strictly between the grid lines of the
\* non-staggered rows, at an odd multiple of h_pitch / 2 and never on a
\* multiple of h_pitch, for every row_counts over 2 to 4 rows, including
\* staggered rows of unequal pin counts.
C17_StaggeredBetweenGridLines ==
    (off_pins.ok /\ ~off_in.row_offset_mm.present) =>
        \A k \in 1 .. Len(off_pins.val) :
            off_pins.val[k].row + 1 \in Staggered =>
                off_pins.val[k].x % off_in.h = Half(off_in.h)

-----------------------------------------------------------------------------
(* Properties of rounded_polygon_path (checked under SpecPath) *)

\* the 0-based indices of the vertices that are not skipped, in order
KeptVertices ==
    SelectSeq([k \in 1 .. Len(path_pts) |-> k - 1],
              LAMBDA i : ~ZeroAngle(path_pts, i))

\* C20: for a polygon of at least 3 vertices rounded_polygon_path returns a
\* command sequence that begins with exactly one move, ends with the close
\* command, and in between holds for each non-skipped vertex, in order, one
\* move-or-line to its first tangent point followed by one arc to its second;
\* a vertex with zero interior angle contributes no command, also when it is
\* the first vertex of the list; fewer than 3 vertices are rejected with an
\* error.
C20_WellFormedPath ==
    /\ path_pc = "raised" => Len(path_pts) < 3
    /\ path_pc \in {"loop", "returned"} => Len(path_pts) >= 3
    /\ path_pc = "returned" =>
          LET n == Len(path_cmds)
              kept == KeptVertices
          IN /\ path_cmds[1][1] = "M"
             /\ Cardinality({j \in 1 .. n : path_cmds[j][1] = "M"}) = 1
             /\ path_cmds[n] = <<"Z">>
             /\ n = 2 * Len(kept) + 1
             /\ \A k \in 1 .. Len(kept) :
                   /\ path_cmds[2 * k - 1][1] \in {"M", "L"}
                   /\ path_cmds[2 * k - 1][2] = kept[k]
                   /\ path_cmds[2 * k][1] = "A"
                   /\ path_cmds[2 * k][2] = kept[k]

-----------------------------------------------------------------------------
(* Properties of the dimension figures (checked under SpecDim) *)

DimCalled == dim_last # NotCalled

\* the layer of the call made last, and what that call added to it
DimLayer == dim_layers[dim_last.val.call.layer]
Appended == SubSeq(DimLayer, Len(dim_last.val.before) + 1, Len(DimLayer))

OfKind(elems, kind) == SelectSeq(elems, LAMBDA e : e.kind = kind)

Tip(arrow) == arrow.points[1]

\* twice the vector from the middle of an arrowhead's base to its tip
Heading(arrow) ==
    <<2 * arrow.points[1][1] - (arrow.points[2][1] + arrow.points[3][1]),
      2 * arrow.points[1][2] - (arrow.points[2][2] + arrow.points[3][2])>>

\* the arrowhead at p points to the side on which q lies
PointsToward(arrow, q) ==
    Heading(arrow)[1] * (q[1] - Tip(arrow)[1])
        + Heading(arrow)[2] * (q[2] - Tip(arrow)[2]) > 0

LineEnds(l) == {<<l.x1, l.y1>>, <<l.x2, l.y2>>}

\* the line that joins the two arrow tips
IsDimensionLine(l, arrows) == LineEnds(l) = {Tip(arrows[1]), Tip(arrows[2])}

\* a line that ends on an arrow tip at a right angle to the dimension line
IsExtensionLine(l, arrows) ==
    LET t1 == Tip(arrows[1])
        t2 == Tip(arrows[2])
    IN /\ ~IsDimensionLine(l, arrows)
       /\ <<l.x2, l.y2>> \in {t1, t2}
       /\ (l.x2 - l.x1) * (t2[1] - t1[1]) + (l.y2 - l.y1) * (t2[2] - t1[2]) = 0

CountLines(lines, P(_)) == Cardinality({k \in 1 .. Len(lines) : P(lines[k])})

\* the call made last added two extension lines, one dimension line, two
\* arrowheads and one label after what its layer already held
SixElements ==
    LET lines == OfKind(Appended, "line")
        arrows == OfKind(Appended, "polygon")
    IN /\ SubSeq(DimLayer, 1, Len(dim_last.val.before)) = dim_last.val.before
       /\ Len(Appended) = 6
       /\ Len(arrows) = 2
       /\ Len(OfKind(Appended, "text")) = 1
       /\ Len(lines) = 3
       /\ CountLines(lines, LAMBDA l : IsDimensionLine(l, arrows)) = 1
       /\ CountLines(lines, LAMBDA l : IsExtensionLine(l, arrows)) = 2

\* the two arrowheads the call made last added point toward each other
ArrowsInward ==
    LET arrows == OfKind(Appended, "polygon")
    IN /\ Len(arrows) = 2
       /\ PointsToward(arrows[1], Tip(arrows[2]))
       /\ PointsToward(arrows[2], Tip(arrows[1]))

\* C21: every dimension-figure call (dim_horizontal, dim_vertical,
\* dim_h_simple, dim_v_simple_left) appends to its layer exactly two
\* extension lines, one dimension line, two arrowheads that point toward each
\* other, and one label.
C21_DimensionFigure == DimCalled => (SixElements /\ ArrowsInward)

-----------------------------------------------------------------------------
(* Properties of the catalog normaliser (checked under SpecNormalize) *)

\* the definition omits contacts_per_row and names 2, 3 or 4 rows
OmitsCounts ==
    /\ ~norm_in.contacts_per_row.present
    /\ norm_in.rows.present
    /\ norm_in.rows.val \in SupportedRows

\* C22: for an insert definition that omits contacts_per_row, with any
\* total_contacts and rows in {2, 3, 4}, the counts the normaliser stores
\* and the counts that are then laid out are both equal to
\* distribute_pins(total_contacts, rows).
C22_NormaliserMatchesDistributePins ==
    LET spec_rule == distribute_pins(norm_in.total_contacts.val, norm_in.rows.val)
    IN OmitsCounts =>
          /\ norm_out # NotCalled =>
                /\ norm_out.ok
                /\ norm_out.val.contacts_per_row = spec_rule.val
          /\ norm_drawn # NotCalled => norm_drawn = spec_rule

=============================================================================
